---- MODULE Spec2Model ----
(***************************************************************************)
(* Model of greynoise-mmdb-to-cribl-cloud.py: the orchestrator main() and  *)
(* the functions it calls, against a remote lookup store and a local       *)
(* working directory.  One action per function call made by main(); the    *)
(* responses of the remote services and the outcome of local file          *)
(* operations are the nondeterministic inputs.                             *)
(* convert_mmdb_to_csv is modelled a second time row by row, as a          *)
(* specification of its own (SpecCsv) over bounded databases.              *)
(*                                                                         *)
(* Python strings are sequences of tokens (the token "." is the dot, so    *)
(* that str.split("."), os.path.splitext and str.startswith are computed   *)
(* and not assumed).  None, True and False are the reserved values below.  *)
(***************************************************************************)
EXTENDS Naturals, Sequences, FiniteSets

\* number of successive invocations of the script that are explored
MaxRuns == 2

\* ---------------------------------------------------------------- values
None == <<"<None>">>
PyTrue == <<"<True>">>
PyFalse == <<"<False>">>
\* a dictionary key that the response does not carry
Absent == <<"<absent>">>
\* the empty Python string
EmptyStr == <<>>

\* Python truthiness of the values used here ("if not x")
Truthy(v) == v \notin {None, PyFalse, EmptyStr}

\* dict.get(key): a missing key reads as None
DictGet(v) == IF v = Absent THEN None ELSE v

\* str.startswith
StartsWith(s, p) == Len(p) <= Len(s) /\ SubSeq(s, 1, Len(p)) = p

DotPositions(s) == {i \in 1..Len(s) : s[i] = "."}

MinOf(S) == CHOOSE x \in S : \A y \in S : x <= y

MaxOf(S) == CHOOSE x \in S : \A y \in S : x >= y

\* s.split(".")[0]: what precedes the first dot
SplitDotFirst(s) == IF DotPositions(s) = {} THEN s ELSE SubSeq(s, 1, MinOf(DotPositions(s)) - 1)

\* os.path.splitext(s)[0]: what precedes the last dot (a leading dot is no extension)
SplitExtRoot(s) == IF DotPositions(s) \ {1} = {} THEN s ELSE SubSeq(s, 1, MaxOf(DotPositions(s)) - 1)

\* ------------------------------------------------------------ file names
\* main: lookup_filename / process_mmdb_file: target_filename
TargetFilename == <<"ti_greynoise_indicators", "-simple", ".", "mmdb">>

\* the dates on which the script may run
Days == {"2026-01-01", "2026-01-02"}

\* download_mmdb_file, line 64: f"m{version}-{today}.mmdb"
DownloadFilenameOf(today) == <<"m3-", today, ".", "mmdb">>

\* convert_mmdb_to_csv, lines 333-334: f"{base_filename}-SAMPLE.csv"
CsvFilenameOf(lookup) == SplitExtRoot(lookup) \o <<"-SAMPLE", ".", "csv">>

\* temporary filenames the staging endpoint may assign
TempNames == { <<"ti_greynoise_indicators", "-simple", ".", "r1", ".", "mmdb">>,
               <<"ti_greynoise_indicators", "-simple", "-SAMPLE", ".", "r2", ".", "csv">>,
               <<"ti_greynoise_indicators", ".", "r3", ".", "tmp">> }

\* bearer tokens the token endpoint may issue
TokenValues == { <<"tokA">>, <<"tokB">> }

\* commit identifiers the commit endpoint may return
CommitIds == { <<"c1">>, <<"c2">> }

VARIABLES
    run,              \* number of the current invocation of the script
    pc,               \* position of main()
    art,              \* artifact whose pipeline main() is in: "mmdb" or "csv"
    create_csv,       \* main: create_csv
    client_id,        \* main: client_id
    client_secret,    \* main: client_secret
    token,            \* main: token
    mmdb_path,        \* process_mmdb_file: mmdb_path
    lookup_filename,  \* main: lookup_filename
    csv_filename,     \* main: csv_filename
    temp_filename,    \* main: temp_filename
    csv_temp_filename,\* main: csv_temp_filename
    commit_id,        \* main: commit_id
    error,            \* the exception main() raised: its layers, outermost first
    log,              \* the calls main() has made in this run, in order
    fs,               \* files of the working directory
    registered,       \* remote store: ids of the registered lookups
    deployed,         \* remote store: the version deployed to the worker group
    db,               \* convert_mmdb_to_csv: the records the reader delivers, in order
    max_rows,         \* convert_mmdb_to_csv: max_rows
    csv_out,          \* convert_mmdb_to_csv: the header, the rows written, what was raised
    conv              \* convert_mmdb_to_csv: "idle", "ready" (called) or "done" (returned)

vars == << run, pc, art, create_csv, client_id, client_secret, token, mmdb_path,
           lookup_filename, csv_filename, temp_filename, csv_temp_filename,
           commit_id, error, log, fs, registered, deployed, db, max_rows, csv_out, conv >>

\* the variables of main() and of its environment
mainVars == << run, pc, art, create_csv, client_id, client_secret, token, mmdb_path,
               lookup_filename, csv_filename, temp_filename, csv_temp_filename,
               commit_id, error, log, fs, registered, deployed >>

\* the variables of one transcoding
csvVars == << db, max_rows, csv_out, conv >>

\* one call made by main() (or one os.remove made by cleanup_old_files): the
\* function, the artifact, the bearer token sent, the logical filename and the
\* further argument passed (temporary filename or commit id), how the call
\* ended ("ok": 2xx and understood, "err": transport error or non-2xx,
\* "raise": an exception that is no RequestException, "unsent": no request was
\* made), the field of the response body the function reads, and the value
\* returned to main()
Ev(op, a, tok, id, arg, status, body, ret) ==
    [op |-> op, art |-> a, tok |-> tok, id |-> id, arg |-> arg, status |-> status,
     body |-> body, ret |-> ret]

\* what a called function hands back to main(): a value, or an exception given
\* by the layers of its message, outermost first
Ret(v) == [kind |-> "ret", val |-> v, exc |-> <<>>]

Raise(e) == [kind |-> "raise", val |-> None, exc |-> e]

\* how a call ended, for the log
CallStatus(sent, resp, result) ==
    IF ~sent THEN "unsent"
    ELSE IF resp.status = "err" THEN "err"
    ELSE IF result.kind = "raise" THEN "raise"
    ELSE "ok"

\* the artifact's logical filename and its temporary filename, as main() holds them
CurFilename == IF art = "mmdb" THEN lookup_filename ELSE csv_filename

\* the registration were it to pass the binary artifact's temporary filename
\* for either artifact
CurTemp_AlwaysBinary == temp_filename

CurTemp == IF art = "mmdb" THEN temp_filename ELSE csv_temp_filename

\* main, lines 536-538: raise Exception(f"Error in main function: {e}")
MainError(layers) == <<"Error in main function">> \o layers

\* one statement "x = f(...); if not x: raise Exception(msg)" of main(): the
\* called function raised, or main() raises msg (nxt = "failed"), or goes on
MainStep(r, nxt, msg) ==
    /\ pc' = IF r.kind = "raise" THEN "failed" ELSE nxt
    /\ error' = IF r.kind = "raise" THEN MainError(r.exc)
                ELSE IF nxt = "failed" THEN MainError(<<msg>>)
                ELSE error

MainInit ==
    /\ run = 1
    /\ pc = "start"
    /\ art = "mmdb"
    /\ create_csv = FALSE
    /\ client_id = None
    /\ client_secret = None
    /\ token = None
    /\ mmdb_path = None
    /\ lookup_filename = None
    /\ csv_filename = None
    /\ temp_filename = None
    /\ csv_temp_filename = None
    /\ commit_id = None
    /\ error = <<>>
    /\ log = <<>>
    /\ fs = {}
    /\ registered = {}
    /\ deployed = None

\* no transcoding is looked at: its variables rest
CsvIdle ==
    /\ db = <<>>
    /\ max_rows = <<>>
    /\ csv_out = [header |-> <<>>, rows |-> <<>>, raised |-> <<>>]
    /\ conv = "idle"

Init == MainInit /\ CsvIdle

\* main, line 460: int() of a CSV_MAX_ROWS that is no number
ConfigError == <<"ValueError: invalid literal for int()">>

\* main, lines 452-462: the inputs read from the environment
ReadConfig ==
    /\ pc = "start"
    /\ \E cid \in {None, <<"id">>}, sec \in {None, <<"secret">>}, csv \in BOOLEAN, rowsOk \in BOOLEAN :
         IF rowsOk
         THEN /\ client_id' = cid
              /\ client_secret' = sec
              /\ create_csv' = csv
              /\ pc' = "token"
              /\ error' = error
         ELSE /\ pc' = "failed"
              /\ error' = MainError(ConfigError)
              /\ UNCHANGED << client_id, client_secret, create_csv >>
    /\ UNCHANGED << run, art, token, mmdb_path, lookup_filename, csv_filename, temp_filename,
                    csv_temp_filename, commit_id, log, fs, registered, deployed >>
    /\ UNCHANGED csvVars

\* ------------------------------------------------------------ token
\* responses of the token endpoint: "err" is a transport error or a non-2xx
\* status, "malformed" a 2xx whose body has not the expected shape
TokenResponses ==
    { [status |-> "err", access_token |-> Absent], [status |-> "malformed", access_token |-> Absent] }
    \cup { [status |-> "ok", access_token |-> t] : t \in TokenValues \cup {Absent, EmptyStr} }

\* get_bearer_token, lines 150-171
GetBearerTokenResult(cid, sec, resp) ==
    IF ~Truthy(cid) \/ ~Truthy(sec)
    THEN Raise(<<"ValueError: CRIBL_CLIENT_ID and CRIBL_CLIENT_SECRET must be provided">>)
    ELSE IF resp.status = "err" THEN Ret(None)
    ELSE IF resp.status = "malformed" THEN Raise(<<"TypeError">>)
    ELSE IF resp.access_token = Absent THEN Raise(<<"KeyError: access_token">>)
    ELSE Ret(resp.access_token)

\* AfterToken without the test of line 466: main() goes on with whatever came back
AfterToken_NoCheck(tok) == "download"

\* main, lines 466-468
AfterToken(tok) == IF ~Truthy(tok) THEN "failed" ELSE "download"

\* main, lines 464-468
GetBearerToken ==
    /\ pc = "token"
    /\ \E resp \in TokenResponses :
         LET sent == Truthy(client_id) /\ Truthy(client_secret)
             r == GetBearerTokenResult(client_id, client_secret, resp)
         IN  /\ log' = Append(log, Ev("get_bearer_token", "none", None, None, None,
                                      CallStatus(sent, resp, r), None, r.val))
             /\ token' = IF r.kind = "raise" THEN token ELSE r.val
             /\ MainStep(r, AfterToken(r.val), "Failed to get Cribl token")
    /\ UNCHANGED << run, art, create_csv, client_id, client_secret, mmdb_path, lookup_filename,
                    csv_filename, temp_filename, csv_temp_filename, commit_id, fs,
                    registered, deployed >>
    /\ UNCHANGED csvVars

\* ------------------------------------------------------------ acquisition
\* process_mmdb_file, lines 145-147: the handler reads target_filename, which is
\* bound only from line 117 on; before that the handler itself fails
ProcessExcept(targetBound, inner) ==
    IF targetBound
    THEN <<"Error processing ti_greynoise_indicators-simple.mmdb">> \o inner
    ELSE <<"UnboundLocalError: target_filename">>

\* download_mmdb_file, lines 98-103
DownloadExcept(inner) == <<"Failed to download MMDB file">> \o inner

\* validate_mmdb_file were its handler (lines 36-38) missing
ValidateMmdbFileResult_Uncaught(exists, opens) ==
    IF ~exists THEN Ret(PyFalse)
    ELSE IF ~opens THEN Raise(<<"InvalidDatabaseError">>)
    ELSE Ret(PyTrue)

\* validate_mmdb_file, lines 24-38: exists tells whether the file is there,
\* opens whether it opens as a database and gives its metadata; whatever is
\* raised inside is caught and answered with False
ValidateMmdbFileResult(exists, opens) ==
    LET body == IF ~exists THEN Ret(PyFalse)
                ELSE IF ~opens THEN Raise(<<"InvalidDatabaseError">>)
                ELSE Ret(PyTrue)
    IN  IF body.kind = "raise" THEN Ret(PyFalse) ELSE body

\* download_mmdb_file with the test of lines 93-94 left out
DownloadMmdbFileResult_NoValidation(name, httpOk, valid) ==
    IF ~httpOk THEN Raise(DownloadExcept(<<"RequestException">>))
    ELSE Ret(name)

\* download_mmdb_file, lines 41-103: httpOk tells whether the request and
\* the write went through, valid is what validate_mmdb_file gave; every
\* failure leaves through one of the two handlers of lines 98-103
DownloadMmdbFileResult(name, httpOk, valid) ==
    IF ~httpOk THEN Raise(DownloadExcept(<<"RequestException">>))
    ELSE IF valid.kind = "raise" THEN Raise(DownloadExcept(valid.exc))
    ELSE IF ~Truthy(valid.val) THEN Raise(DownloadExcept(<<"Downloaded MMDB file is not valid">>))
    ELSE Ret(name)

\* download_mmdb_file (lines 41-103, with validate_mmdb_file, lines 24-38), as
\* called at line 109.  Outcomes: the request fails; the file is written and
\* does not open as a database; the file is written and is valid.  A failure
\* passes through the handler of process_mmdb_file before target_filename
\* is bound.  The events keep in body what failed in the first place.
DownloadMmdbFile ==
    /\ pc = "download"
    /\ \E today \in Days, httpOk \in BOOLEAN, opens \in BOOLEAN :
         LET name == DownloadFilenameOf(today)
             fs1 == IF httpOk THEN fs \cup {name} ELSE fs
             valid == ValidateMmdbFileResult(name \in fs1, opens)
             r == DownloadMmdbFileResult(name, httpOk, valid)
             validation == Ev("validate_mmdb_file", "mmdb", None, name, None,
                              IF valid.kind = "raise" THEN "raise" ELSE "ok",
                              IF name \notin fs1 THEN <<"missing">>
                              ELSE IF opens THEN <<"opens">> ELSE <<"unopenable">>,
                              valid.val)
             download == Ev("download_mmdb_file", "mmdb", None, name, None,
                            IF r.kind = "ret" THEN "ok"
                            ELSE IF httpOk THEN "raise" ELSE "err",
                            IF r.kind = "raise" THEN Tail(r.exc) ELSE None,
                            r.val)
         IN  /\ httpOk \/ opens
             /\ log' = log \o (IF httpOk THEN <<validation>> ELSE <<>>) \o <<download>>
             /\ fs' = fs1
             /\ mmdb_path' = IF r.kind = "ret" THEN r.val ELSE mmdb_path
             /\ pc' = IF r.kind = "ret" THEN "process" ELSE "failed"
             /\ error' = IF r.kind = "raise" THEN MainError(ProcessExcept(FALSE, r.exc))
                         ELSE error
    /\ UNCHANGED << run, art, create_csv, client_id, client_secret, token, lookup_filename,
                    csv_filename, temp_filename, csv_temp_filename, commit_id,
                    registered, deployed >>
    /\ UNCHANGED csvVars

\* process_mmdb_file, lines 111-147, and main, lines 471-474: the existence
\* test, the rename to the canonical name, the count of the entries
ProcessMmdbFile ==
    /\ pc = "process"
    /\ \E renameOk \in BOOLEAN, countOk \in BOOLEAN :
         LET cause == IF mmdb_path \notin fs THEN <<"FileNotFoundError: MMDB file not found">>
                      ELSE IF ~renameOk THEN <<"OSError: rename">>
                      ELSE <<"InvalidDatabaseError">>
             r == IF mmdb_path \notin fs THEN Raise(ProcessExcept(FALSE, cause))
                  ELSE IF ~renameOk THEN Raise(ProcessExcept(TRUE, cause))
                  ELSE IF ~countOk THEN Raise(ProcessExcept(TRUE, cause))
                  ELSE Ret(TargetFilename)
             renamed == mmdb_path \in fs /\ renameOk
         IN  /\ log' = Append(log, Ev("process_mmdb_file", "mmdb", None, mmdb_path, None,
                                      IF r.kind = "raise" THEN "raise" ELSE "ok",
                                      IF r.kind = "raise" THEN cause ELSE None, r.val))
             /\ fs' = IF renamed THEN (fs \ {mmdb_path}) \cup {TargetFilename} ELSE fs
             /\ mmdb_path' = IF renamed THEN TargetFilename ELSE mmdb_path
             /\ lookup_filename' = IF r.kind = "raise" THEN lookup_filename ELSE r.val
             /\ MainStep(r, IF ~Truthy(r.val) THEN "failed" ELSE "upload", "Failed to process MMDB file")
    /\ UNCHANGED << run, art, create_csv, client_id, client_secret, token,
                    csv_filename, temp_filename, csv_temp_filename, commit_id,
                    registered, deployed >>
    /\ UNCHANGED csvVars

\* ------------------------------------------------------------ upload
\* responses of the staging endpoint
UploadResponses ==
    { [status |-> "err", filename |-> Absent], [status |-> "malformed", filename |-> Absent] }
    \cup { [status |-> "ok", filename |-> f] : f \in TempNames \cup {Absent, EmptyStr} }

\* UploadLookupFileResult without the prefix test of lines 214-216
UploadLookupFileResult_NoPrefixCheck(filename, hasFile, resp) ==
    IF ~hasFile THEN Raise(<<"FileNotFoundError">>)
    ELSE IF resp.status = "err" THEN Ret(None)
    ELSE IF resp.status = "malformed" THEN Raise(<<"AttributeError">>)
    ELSE LET temp == DictGet(resp.filename)
         IN  IF ~Truthy(temp) THEN Ret(None) ELSE Ret(temp)

\* upload_lookup_file, lines 198-221
UploadLookupFileResult(filename, hasFile, resp) ==
    IF ~hasFile THEN Raise(<<"FileNotFoundError">>)
    ELSE IF resp.status = "err" THEN Ret(None)
    ELSE IF resp.status = "malformed" THEN Raise(<<"AttributeError">>)
    ELSE LET temp == DictGet(resp.filename)
         IN  IF ~Truthy(temp) THEN Ret(None)
             ELSE IF ~StartsWith(temp, SplitDotFirst(filename)) THEN Ret(None)
             ELSE Ret(temp)

\* main were it to try a failed upload a second time
AfterUpload_RetryOnce(temp) ==
    IF Truthy(temp) THEN "exists"
    ELSE IF \E j \in 1..Len(log) : log[j].op = "upload_lookup_file" /\ log[j].art = art
         THEN "failed" ELSE "upload"

\* main, lines 477-478 and 507-508
AfterUpload(temp) == IF ~Truthy(temp) THEN "failed" ELSE "exists"

\* main, lines 476-479 (binary lookup) and 506-509 (tabular sample)
UploadLookupFile ==
    /\ pc = "upload"
    /\ \E resp \in UploadResponses :
         LET sent == CurFilename \in fs
             r == UploadLookupFileResult(CurFilename, sent, resp)
         IN  /\ log' = Append(log, Ev("upload_lookup_file", art, token, CurFilename, None,
                                      CallStatus(sent, resp, r),
                                      IF sent /\ resp.status = "ok" THEN resp.filename ELSE None,
                                      r.val))
             /\ temp_filename' = IF r.kind = "ret" /\ art = "mmdb" THEN r.val ELSE temp_filename
             /\ csv_temp_filename' = IF r.kind = "ret" /\ art = "csv" THEN r.val ELSE csv_temp_filename
             /\ MainStep(r, AfterUpload(r.val),
                         IF art = "mmdb" THEN "Failed to upload lookup file" ELSE "Failed to upload CSV file")
    /\ UNCHANGED << run, art, create_csv, client_id, client_secret, token, mmdb_path,
                    lookup_filename, csv_filename, commit_id, fs, registered, deployed >>
    /\ UNCHANGED csvVars

\* ------------------------------------------------------------ existence check
\* an id of the remote store that is neither artifact's
OtherId == <<"unrelated", ".", "csv">>

\* responses of the lookup query for id f, given the remote store: the item
\* list carries f exactly when f is registered
ExistsResponses(f) ==
    { [status |-> "err", has_items |-> FALSE, items |-> <<>>],
      [status |-> "malformed", has_items |-> FALSE, items |-> <<>>] }
    \cup (IF f \in registered
          THEN { [status |-> "ok", has_items |-> TRUE, items |-> <<f>>],
                 [status |-> "ok", has_items |-> TRUE, items |-> <<OtherId, f>>] }
          ELSE { [status |-> "ok", has_items |-> FALSE, items |-> <<>>],
                 [status |-> "ok", has_items |-> TRUE, items |-> <<>>],
                 [status |-> "ok", has_items |-> TRUE, items |-> <<OtherId>>] })

\* check_lookup_exists were it to look at the first item only
CheckLookupExistsResult_FirstItemOnly(filename, resp) ==
    IF resp.status = "err" THEN Ret(PyFalse)
    ELSE IF resp.status = "malformed" THEN Raise(<<"AttributeError">>)
    ELSE IF ~resp.has_items \/ resp.items = <<>> THEN Ret(PyFalse)
    ELSE IF resp.items[1] = filename THEN Ret(PyTrue)
    ELSE Ret(PyFalse)

\* check_lookup_exists, lines 178-189
CheckLookupExistsResult(filename, resp) ==
    IF resp.status = "err" THEN Ret(PyFalse)
    ELSE IF resp.status = "malformed" THEN Raise(<<"AttributeError">>)
    ELSE IF ~resp.has_items \/ resp.items = <<>> THEN Ret(PyFalse)
    ELSE IF \E i \in 1..Len(resp.items) : resp.items[i] = filename THEN Ret(PyTrue)
    ELSE Ret(PyFalse)

\* main, lines 481-488 and 511-518: the branch taken on the result
BindStep(found) == IF Truthy(found) THEN "update" ELSE "create"

\* main, lines 481 and 511; the event keeps in body the ids of the items of
\* the response (the one id Absent when the response has no item list)
CheckLookupExists ==
    /\ pc = "exists"
    /\ \E resp \in ExistsResponses(CurFilename) :
         LET r == CheckLookupExistsResult(CurFilename, resp)
         IN  /\ log' = Append(log, Ev("check_lookup_exists", art, token, CurFilename, None,
                                      CallStatus(TRUE, resp, r),
                                      IF resp.has_items THEN resp.items ELSE <<Absent>>,
                                      r.val))
             /\ MainStep(r, BindStep(r.val), "")
    /\ UNCHANGED << run, art, create_csv, client_id, client_secret, token, mmdb_path,
                    lookup_filename, csv_filename, temp_filename, csv_temp_filename,
                    commit_id, fs, registered, deployed >>
    /\ UNCHANGED csvVars

\* ------------------------------------------------------------ bind
\* create_lookup / update_lookup / deploy_changes: True on a 2xx response,
\* False on a RequestException (lines 229-236, 244-251, 290-296)
BoolResult(resp) == IF resp.status = "ok" THEN Ret(PyTrue) ELSE Ret(PyFalse)

\* AfterBind that turns to the cleanup when the bind failed
AfterBind_CleanupOnFailure(ok) == IF ~Truthy(ok) THEN "cleanup" ELSE "commit"

\* main, lines 483-488 and 513-518
AfterBind(ok) == IF ~Truthy(ok) THEN "failed" ELSE "commit"

\* create_lookup (lines 224-236) as called by main, lines 487-488 and 517-518.
\* A request whose response is lost may still have been applied by the store.
CreateLookup ==
    /\ pc = "create"
    /\ \E resp \in { [status |-> "ok"], [status |-> "err"] }, applied \in BOOLEAN :
         LET r == BoolResult(resp)
         IN  /\ resp.status = "ok" => applied
             /\ log' = Append(log, Ev("create_lookup", art, token, CurFilename, CurTemp,
                                      CallStatus(TRUE, resp, r), None, r.val))
             /\ registered' = IF applied THEN registered \cup {CurFilename} ELSE registered
             /\ MainStep(r, AfterBind(r.val),
                         IF art = "mmdb" THEN "Failed to create lookup file"
                                         ELSE "Failed to create CSV sample file")
    /\ UNCHANGED << run, art, create_csv, client_id, client_secret, token, mmdb_path,
                    lookup_filename, csv_filename, temp_filename, csv_temp_filename,
                    commit_id, fs, deployed >>
    /\ UNCHANGED csvVars

\* update_lookup (lines 239-251) as called by main, lines 483-484 and 513-514
UpdateLookup ==
    /\ pc = "update"
    /\ \E resp \in { [status |-> "ok"], [status |-> "err"] } :
         LET r == BoolResult(resp)
         IN  /\ log' = Append(log, Ev("update_lookup", art, token, CurFilename, CurTemp,
                                      CallStatus(TRUE, resp, r), None, r.val))
             /\ MainStep(r, AfterBind(r.val),
                         IF art = "mmdb" THEN "Failed to update lookup file"
                                         ELSE "Failed to update CSV sample file")
    /\ UNCHANGED << run, art, create_csv, client_id, client_secret, token, mmdb_path,
                    lookup_filename, csv_filename, temp_filename, csv_temp_filename,
                    commit_id, fs, registered, deployed >>
    /\ UNCHANGED csvVars

\* ------------------------------------------------------------ commit
\* responses of the commit endpoint: the body has no "items" key, an empty
\* item list, or one item that may carry a commit identifier
CommitResponses ==
    { [status |-> "err", items |-> "nokey", commit |-> Absent],
      [status |-> "ok", items |-> "nokey", commit |-> Absent],
      [status |-> "ok", items |-> "empty", commit |-> Absent] }
    \cup { [status |-> "ok", items |-> "one", commit |-> c] : c \in CommitIds \cup {Absent, EmptyStr} }

\* CommitChangesResult that falls back to a default version when the response
\* names no commit: .get("commit", "HEAD"), items or [{}]
CommitChangesResult_DefaultId(resp) ==
    IF resp.status = "err" THEN Ret(None)
    ELSE IF resp.items # "one" THEN Ret(<<"HEAD">>)
    ELSE IF ~Truthy(DictGet(resp.commit)) THEN Ret(<<"HEAD">>)
    ELSE Ret(resp.commit)

\* commit_changes, lines 269-282
CommitChangesResult(resp) ==
    IF resp.status = "err" THEN Ret(None)
    ELSE IF resp.items = "nokey" THEN Raise(<<"KeyError: items">>)
    ELSE IF resp.items = "empty" THEN Raise(<<"IndexError">>)
    ELSE LET id == DictGet(resp.commit)
         IN  IF ~Truthy(id) THEN Ret(None) ELSE Ret(id)

\* main, lines 492-493 and 522-523
AfterCommit(id) == IF ~Truthy(id) THEN "failed" ELSE "deploy"

\* main, lines 491-494 and 521-524
CommitChanges ==
    /\ pc = "commit"
    /\ \E resp \in CommitResponses :
         LET r == CommitChangesResult(resp)
         IN  /\ log' = Append(log, Ev("commit_changes", art, token, CurFilename, None,
                                      CallStatus(TRUE, resp, r),
                                      IF resp.status = "ok" THEN resp.commit ELSE None,
                                      r.val))
             /\ commit_id' = IF r.kind = "raise" THEN commit_id ELSE r.val
             /\ MainStep(r, AfterCommit(r.val), "Failed to commit changes")
    /\ UNCHANGED << run, art, create_csv, client_id, client_secret, token, mmdb_path,
                    lookup_filename, csv_filename, temp_filename, csv_temp_filename,
                    fs, registered, deployed >>
    /\ UNCHANGED csvVars

\* ------------------------------------------------------------ deploy
\* AfterDeploy without the test of lines 497 and 527
AfterDeploy_NoCheck(ok, a, csv) == IF a = "mmdb" /\ csv THEN "convert" ELSE "cleanup"

\* main, lines 497-501 and 527-531: what follows the deploy
\* main were it to go on to the tabular sample whatever create_csv says
AfterDeploy_AlwaysCsv(ok, a, csv) ==
    IF ~Truthy(ok) THEN "failed"
    ELSE IF a = "mmdb" THEN "convert"
    ELSE "cleanup"

AfterDeploy(ok, a, csv) ==
    IF ~Truthy(ok) THEN "failed"
    ELSE IF a = "mmdb" /\ csv THEN "convert"
    ELSE "cleanup"

\* deploy_changes (lines 285-296) as called by main, lines 497-499 and 527-529
DeployChanges ==
    /\ pc = "deploy"
    /\ \E resp \in { [status |-> "ok"], [status |-> "err"] }, applied \in BOOLEAN :
         LET r == BoolResult(resp)
         IN  /\ resp.status = "ok" => applied
             /\ log' = Append(log, Ev("deploy_changes", art, token, None, commit_id,
                                      CallStatus(TRUE, resp, r), None, r.val))
             /\ deployed' = IF applied THEN commit_id ELSE deployed
             /\ MainStep(r, AfterDeploy(r.val, art, create_csv), "Failed to deploy changes")
    /\ UNCHANGED << run, art, create_csv, client_id, client_secret, token, mmdb_path,
                    lookup_filename, csv_filename, temp_filename, csv_temp_filename,
                    commit_id, fs, registered >>
    /\ UNCHANGED csvVars

\* ------------------------------------------------------------ transcode
\* convert_mmdb_to_csv (lines 323-444) as called by main, lines 501-504.
\* Outcomes: the database does not open (no file is created); the export fails
\* after the output file was opened for writing; the export completes.
ConvertMmdbToCsv ==
    /\ pc = "convert"
    /\ \E outcome \in {"open_error", "write_error", "ok"} :
         LET name == CsvFilenameOf(lookup_filename)
             o == IF lookup_filename \notin fs THEN "open_error" ELSE outcome
             r == IF o = "ok" THEN Ret(name) ELSE Raise(<<"Failed to convert MMDB to CSV">>)
         IN  /\ log' = Append(log, Ev("convert_mmdb_to_csv", "csv", None, lookup_filename, None,
                                      IF o = "ok" THEN "ok" ELSE "raise", None, r.val))
             /\ fs' = IF o = "open_error" THEN fs ELSE fs \cup {name}
             /\ csv_filename' = IF o = "ok" THEN name ELSE csv_filename
             /\ art' = IF o = "ok" THEN "csv" ELSE art
             /\ MainStep(r, "upload", "")
    /\ UNCHANGED << run, create_csv, client_id, client_secret, token, mmdb_path,
                    lookup_filename, temp_filename, csv_temp_filename, commit_id,
                    registered, deployed >>
    /\ UNCHANGED csvVars

\* ------------------------------------------------------------ cleanup
\* CleanupTargets that forgets the tabular sample
CleanupTargets_LookupOnly(temp_dir, lookup, csv) ==
    IF ~(Truthy(temp_dir) /\ Truthy(lookup)) THEN <<>> ELSE <<lookup>>

\* cleanup_old_files, lines 308-313: the files it removes, in order
CleanupTargets(temp_dir, lookup, csv) ==
    IF ~(Truthy(temp_dir) /\ Truthy(lookup)) THEN <<>>
    ELSE IF Truthy(csv) THEN <<lookup, csv>>
    ELSE <<lookup>>

\* AfterCleanup without the test of line 532
AfterCleanup_NoCheck(ok) == "done"

\* main, lines 532-533
AfterCleanup(ok) == IF ~Truthy(ok) THEN "failed" ELSE "done"

\* cleanup_old_files (lines 299-320) as called by main, lines 532-534.
\* os.remove fails on a file that is not there and may fail on one that is;
\* the first failure ends the function with False.
CleanupOldFiles ==
    /\ pc = "cleanup"
    /\ \E nOk \in 0..2 :
         LET targets == CleanupTargets(<<".">>, lookup_filename, csv_filename)
             \* the removals that succeed: a prefix of the targets, all of them present
             good == {i \in 1..Len(targets) : i <= nOk /\ \A j \in 1..i : targets[j] \in fs}
             tried == {i \in 1..Len(targets) : i = 1 \/ i - 1 \in good}
             removes == [i \in 1..Cardinality(tried) |->
                           Ev("os.remove", IF i = 1 THEN "mmdb" ELSE "csv", None, targets[i], None,
                              IF i \in good THEN "ok" ELSE "raise", None, None)]
             r == IF targets # <<>> /\ good = 1..Len(targets) THEN Ret(PyTrue) ELSE Ret(PyFalse)
         IN  /\ nOk <= Len(targets)
             /\ fs' = fs \ {targets[i] : i \in good}
             /\ log' = (log \o <<Ev("cleanup_old_files", "none", None, lookup_filename, csv_filename,
                                   "ok", None, r.val)>>) \o removes
             /\ MainStep(r, AfterCleanup(r.val), "Failed to cleanup old files")
    /\ UNCHANGED << run, art, create_csv, client_id, client_secret, token, mmdb_path,
                    lookup_filename, csv_filename, temp_filename, csv_temp_filename,
                    commit_id, registered, deployed >>
    /\ UNCHANGED csvVars

\* ------------------------------------------------------------ runs
\* the script is invoked again: a new process with fresh variables; the working
\* directory and the remote store are as the earlier run left them
StartRun ==
    /\ pc \in {"done", "failed"}
    /\ run < MaxRuns
    /\ run' = run + 1
    /\ pc' = "start"
    /\ art' = "mmdb"
    /\ create_csv' = FALSE
    /\ client_id' = None
    /\ client_secret' = None
    /\ token' = None
    /\ mmdb_path' = None
    /\ lookup_filename' = None
    /\ csv_filename' = None
    /\ temp_filename' = None
    /\ csv_temp_filename' = None
    /\ commit_id' = None
    /\ error' = <<>>
    /\ log' = <<>>
    /\ UNCHANGED << fs, registered, deployed >>
    /\ UNCHANGED csvVars

Next ==
    \/ ReadConfig
    \/ GetBearerToken
    \/ DownloadMmdbFile
    \/ ProcessMmdbFile
    \/ UploadLookupFile
    \/ CheckLookupExists
    \/ CreateLookup
    \/ UpdateLookup
    \/ CommitChanges
    \/ DeployChanges
    \/ ConvertMmdbToCsv
    \/ CleanupOldFiles
    \/ StartRun

Spec == Init /\ [][Next]_vars

\* ====================================================================
\* convert_mmdb_to_csv, row by row
\* ====================================================================
\* Here a Python string is the sequence of its characters; the characters
\* that TLA+ cannot write are named.
DQ == "<dq>"
LF == "<lf>"
CR == "<cr>"

\* longest database explored
MaxRecords == 3

\* convert_mmdb_to_csv, line 353: the number of records sampled for the
\* schema, 1000 in the program, scaled so that databases longer than the
\* sample are explored
SampleSize == 2

\* line 398: characters kept of the single item of a list
ItemLimit == 50
\* line 409: characters kept of a key of a nested dict
KeyLimit == 10
\* line 409: keys of a nested dict that are shown
KeysShown == 3
\* line 425: characters kept of a scalar
ValueLimit == 200

\* ------------------------------------------------------- MMDB values
\* every value has the same fields; t tells which of them is meant
VNone == [t |-> "none", s |-> <<>>, n |-> 0, b |-> FALSE, items |-> <<>>, keys |-> <<>>]
VStr(x) == [VNone EXCEPT !.t = "str", !.s = x]
VInt(k) == [VNone EXCEPT !.t = "int", !.n = k]
VBool(x) == [VNone EXCEPT !.t = "bool", !.b = x]
\* a list of scalars
VList(xs) == [VNone EXCEPT !.t = "list", !.items = xs]
\* a nested dict, by its keys in dict order
VDict(ks) == [VNone EXCEPT !.t = "dict", !.keys = ks]

\* the data of a record: a dict of fields (in dict order), or another value
DictData(fields) == [kind |-> "dict", fields |-> fields, val |-> VNone]
ScalarData(v) == [kind |-> "scalar", fields |-> <<>>, val |-> v]
Field(k, v) == [k |-> k, v |-> v]

\* bool(value) of a value
ValueTruthy(v) ==
    CASE v.t = "none" -> FALSE
      [] v.t = "str" -> v.s # <<>>
      [] v.t = "int" -> v.n # 0
      [] v.t = "bool" -> v.b
      [] v.t = "list" -> v.items # <<>>
      [] v.t = "dict" -> v.keys # <<>>

\* lines 347 and 376: "if data"
DataTruthy(d) == IF d.kind = "dict" THEN d.fields # <<>> ELSE ValueTruthy(d.val)

\* lines 350 and 388: isinstance(data, dict)
IsDict(d) == d.kind = "dict"

\* data.keys(), in dict order
DataKeys(d) == [i \in 1..Len(d.fields) |-> d.fields[i].k]

\* line 390: data.get(key, "")
DataGet(d, key) ==
    IF \E i \in 1..Len(d.fields) : d.fields[i].k = key
    THEN d.fields[CHOOSE i \in 1..Len(d.fields) : d.fields[i].k = key].v
    ELSE VStr(<<>>)

\* ----------------------------------------------------------- strings
Digit(d) == <<"0", "1", "2", "3", "4", "5", "6", "7", "8", "9">>[d + 1]

\* str(n) of a natural number
RECURSIVE NumStr(_)
NumStr(n) == IF n < 10 THEN <<Digit(n)>> ELSE NumStr(n \div 10) \o <<Digit(n % 10)>>

\* str(value) of a scalar
StrOf(v) ==
    CASE v.t = "str" -> v.s
      [] v.t = "int" -> NumStr(v.n)
      [] v.t = "bool" -> IF v.b THEN <<"T", "r", "u", "e">> ELSE <<"F", "a", "l", "s", "e">>
      [] v.t = "none" -> <<"N", "o", "n", "e">>
      [] OTHER -> <<"<repr>">>

\* s.replace(a, b) for one-character a and b
Replace(s, a, b) == [i \in 1..Len(s) |-> IF s[i] = a THEN b ELSE s[i]]

\* s.replace(a, "") for a one-character a
Remove(s, a) == SelectSeq(s, LAMBDA c : c # a)

\* s[:n]
Take(s, n) == IF Len(s) <= n THEN s ELSE SubSeq(s, 1, n)

\* "_".join(parts)
RECURSIVE JoinUnderscore(_)
JoinUnderscore(parts) ==
    IF parts = <<>> THEN <<>>
    ELSE IF Len(parts) = 1 THEN parts[1]
    ELSE parts[1] \o <<"_">> \o JoinUnderscore(Tail(parts))

Alphabet == <<"a", "b", "c", "d", "e", "f", "g", "h", "i", "j", "k", "l", "m",
              "n", "o", "p", "q", "r", "s", "t", "u", "v", "w", "x", "y", "z">>

\* the place of a letter in the alphabet
AlphabetIndex == [c \in {Alphabet[i] : i \in 1..Len(Alphabet)} |->
                    CHOOSE i \in 1..Len(Alphabet) : Alphabet[i] = c]

\* ord(c) of the characters that occur in keys
CharCode(c) ==
    IF c \in DOMAIN AlphabetIndex THEN 96 + AlphabetIndex[c]
    ELSE CASE c = "," -> 44
           [] c = "A" -> 65
           [] c = "Z" -> 90
           [] c = "_" -> 95
           [] OTHER -> 0

\* s < t for Python strings: by code points, a proper prefix is smaller
LexLess(s, t) ==
    \E i \in 1..(Len(s) + 1) :
        /\ \A j \in 1..(i - 1) : j <= Len(t) /\ s[j] = t[j]
        /\ \/ i = Len(s) + 1 /\ Len(t) >= i
           \/ i <= Len(s) /\ i <= Len(t) /\ CharCode(s[i]) < CharCode(t[i])

\* the list left in the order in which the set gave it
Sorted_AsListed(xs) == xs

\* line 358: sorted(xs) of a list without duplicates
RECURSIVE Sorted(_)
Sorted(xs) ==
    IF xs = <<>> THEN <<>>
    ELSE LET rest == Sorted(Tail(xs))
             k == Cardinality({i \in 1..Len(rest) : LexLess(rest[i], Head(xs))})
         IN  SubSeq(rest, 1, k) \o <<Head(xs)>> \o SubSeq(rest, k + 1, Len(rest))

\* ------------------------------------------------- the cell of a value
\* lines 398 and 418-424: the replacements that keep a string inside its cell
CleanItem(s) == Replace(Replace(Replace(s, ",", ";"), DQ, "'"), LF, " ")

CleanValue(s) == Remove(Replace(Replace(Replace(s, ",", ";"), DQ, "'"), LF, " "), CR)

\* line 409: str(k).replace(",", ";")[:10]
CleanKey(k) == Take(Replace(k, ",", ";"), KeyLimit)

\* the cell of a value were the test for booleans (lines 414-415) missing
EncodeValue_BoolAsString(value) ==
    IF value.t = "list" THEN
        IF Len(value.items) = 0 THEN <<"EMPTY_LIST">>
        ELSE IF Len(value.items) = 1
             THEN <<"LIST_1_ITEM_">> \o Take(CleanItem(StrOf(value.items[1])), ItemLimit)
             ELSE <<"LIST_">> \o NumStr(Len(value.items)) \o <<"_ITEMS">>
    ELSE IF value.t = "dict" THEN
        IF Len(value.keys) = 0 THEN <<"EMPTY_DICT">>
        ELSE <<"DICT_">> \o NumStr(Len(value.keys)) \o <<"_KEYS_">>
             \o JoinUnderscore([i \in 1..Len(Take(value.keys, KeysShown)) |-> CleanKey(value.keys[i])])
    ELSE IF value.t = "none" \/ (value.t = "str" /\ value.s = <<>>) THEN <<"NULL">>
    ELSE Take(CleanValue(StrOf(value)), ValueLimit)

\* lines 392-425: the cell written for a value, the tests in the order of the code
EncodeValue(value) ==
    IF value.t = "list" THEN
        IF Len(value.items) = 0 THEN <<"EMPTY_LIST">>
        ELSE IF Len(value.items) = 1
             THEN <<"LIST_1_ITEM_">> \o Take(CleanItem(StrOf(value.items[1])), ItemLimit)
             ELSE <<"LIST_">> \o NumStr(Len(value.items)) \o <<"_ITEMS">>
    ELSE IF value.t = "dict" THEN
        IF Len(value.keys) = 0 THEN <<"EMPTY_DICT">>
        ELSE <<"DICT_">> \o NumStr(Len(value.keys)) \o <<"_KEYS_">>
             \o JoinUnderscore([i \in 1..Len(Take(value.keys, KeysShown)) |-> CleanKey(value.keys[i])])
    ELSE IF value.t = "none" \/ (value.t = "str" /\ value.s = <<>>) THEN <<"NULL">>
    ELSE IF value.t = "bool" THEN (IF value.b THEN <<"true">> ELSE <<"false">>)
    ELSE Take(CleanValue(StrOf(value)), ValueLimit)

\* ------------------------------------------------------------ the rows
\* a record of the database: the network (10.0.<n>.0/24) and its data
NetworkStr(n) == <<"10.0.">> \o NumStr(n) \o <<".0/24">>
\* line 383: ip_network(network).network_address
NetworkStart(n) == <<"10.0.">> \o NumStr(n) \o <<".0">>
\* line 384: ip_network(network).broadcast_address
NetworkEnd(n) == <<"10.0.">> \o NumStr(n) \o <<".255">>

\* line 357
BaseHeaders == << <<"network">>, <<"network_start">>, <<"network_end">> >>

Cell(k, c) == [k |-> k, c |-> c]

\* csv_row were the loop of line 389 to go over the keys of the record
CsvRow_AllKeys(rec, data_headers) ==
    << Cell(BaseHeaders[1], NetworkStr(rec.network)),
       Cell(BaseHeaders[2], NetworkStart(rec.network)),
       Cell(BaseHeaders[3], NetworkEnd(rec.network)) >>
    \o (IF IsDict(rec.data)
        THEN [i \in 1..Len(rec.data.fields) |->
                 Cell(rec.data.fields[i].k, EncodeValue(rec.data.fields[i].v))]
        ELSE <<>>)

\* lines 381-425: csv_row, a dict from column to cell
CsvRow(rec, data_headers) ==
    << Cell(BaseHeaders[1], NetworkStr(rec.network)),
       Cell(BaseHeaders[2], NetworkStart(rec.network)),
       Cell(BaseHeaders[3], NetworkEnd(rec.network)) >>
    \o (IF IsDict(rec.data)
        THEN [i \in 1..Len(data_headers) |->
                 Cell(data_headers[i], EncodeValue(DataGet(rec.data, data_headers[i])))]
        ELSE <<>>)

\* lines 365 and 427: csv.DictWriter(fieldnames).writerow(csv_row); a column
\* that csv_row lacks is written as restval, the empty string
WriteRow(fieldnames, csv_row) ==
    [i \in 1..Len(fieldnames) |->
        IF \E j \in 1..Len(csv_row) : csv_row[j].k = fieldnames[i]
        THEN csv_row[CHOOSE j \in 1..Len(csv_row) : csv_row[j].k = fieldnames[i]].c
        ELSE EmptyStr]

\* line 427: writer.writerow raises ValueError when csv_row has a key that
\* is no fieldname (extrasaction is left at "raise")
RowExtras(fieldnames, csv_row) ==
    {j \in 1..Len(csv_row) : \A i \in 1..Len(fieldnames) : fieldnames[i] # csv_row[j].k}

\* headers_found.update(keys): the keys not seen yet join the set
RECURSIVE SetUpdate(_, _)
SetUpdate(found, keys) ==
    IF keys = <<>> THEN found
    ELSE SetUpdate(IF \E i \in 1..Len(found) : found[i] = Head(keys)
                   THEN found ELSE Append(found, Head(keys)),
                   Tail(keys))

\* lines 346-354: the sampling loop from record i on; found holds the set
\* headers_found (in the order the keys came), consumed the records read
RECURSIVE SampleScan(_, _, _, _)
SampleScan(records, i, entry_count, found) ==
    IF i > Len(records) THEN [found |-> found, consumed |-> Len(records)]
    ELSE IF DataTruthy(records[i].data)
         THEN LET found2 == IF IsDict(records[i].data)
                            THEN SetUpdate(found, DataKeys(records[i].data))
                            ELSE found
              IN  IF entry_count + 1 >= SampleSize
                  THEN [found |-> found2, consumed |-> i]
                  ELSE SampleScan(records, i + 1, entry_count + 1, found2)
         ELSE SampleScan(records, i + 1, entry_count, found)

Reverse(s) == [i \in 1..Len(s) |-> s[Len(s) + 1 - i]]

\* line 358: list(headers_found); a set gives its elements in an order of
\* its own
SetOrders == {"as_inserted", "reversed"}

ListOfSet(found, order) == IF order = "as_inserted" THEN found ELSE Reverse(found)

\* the traversal were it to go on where the sampling loop stopped
ReaderIter_Resume(records, consumed) == SubSeq(records, consumed + 1, Len(records))

\* line 371: "for network, data in reader" starts a new traversal of the
\* database, whatever the sampling loop has read
ReaderIter(records, consumed) == records

\* max_rows: None is NoCap, the integer k is <<k>>
NoCap == <<>>

\* lines 361 and 372: "if max_rows"
MaxRowsTruthy(m) == m # NoCap /\ m[1] # 0

\* lines 371-428: the export loop from record i on; it gives the rows written
\* and what was raised, if anything (a raise ends the loop)
RECURSIVE ExportRows(_, _, _, _, _)
ExportRows(records, i, rows, cap, csv_headers) ==
    IF i > Len(records) THEN [rows |-> rows, raised |-> <<>>]
    ELSE IF MaxRowsTruthy(cap) /\ Len(rows) >= cap[1] THEN [rows |-> rows, raised |-> <<>>]
    ELSE IF DataTruthy(records[i].data)
         THEN LET csv_row == CsvRow(records[i], SubSeq(csv_headers, 4, Len(csv_headers)))
              IN  IF RowExtras(csv_headers, csv_row) # {}
                  THEN [rows |-> rows,
                        raised |-> <<"ValueError: dict contains fields not in fieldnames">>]
                  ELSE ExportRows(records, i + 1, Append(rows, WriteRow(csv_headers, csv_row)),
                                  cap, csv_headers)
         ELSE ExportRows(records, i + 1, rows, cap, csv_headers)

\* lines 442-444
ConvertExcept(inner) == IF inner = <<>> THEN <<>> ELSE <<"Failed to convert MMDB to CSV">> \o inner

\* lines 338-444: the header and the rows that convert_mmdb_to_csv writes,
\* and the exception it leaves with, if any
ConvertMmdbToCsvResult(records, cap, order) ==
    LET scan == SampleScan(records, 1, 0, <<>>)
        csv_headers == BaseHeaders \o Sorted(ListOfSet(scan.found, order))
        export == ExportRows(ReaderIter(records, scan.consumed), 1, <<>>, cap, csv_headers)
    IN  [header |-> csv_headers, rows |-> export.rows, raised |-> ConvertExcept(export.raised)]

\* ------------------------------------------------------- the databases
Xs(n) == [i \in 1..n |-> "x"]

KScore == <<"s", "c", "o", "r", "e">>
KTags == <<"t", "a", "g", "s">>

\* a record that has a value of every kind the export tells apart
RichData ==
    DictData(<< Field(<<"t", "r", "u", "e">>, VBool(TRUE)),
                Field(<<"f", "a", "l", "s", "e">>, VBool(FALSE)),
                Field(<<"n", "u", "l", "l">>, VNone),
                Field(<<"e", "m", "p", "t", "y">>, VStr(<<>>)),
                Field(<<"z", "e", "r", "o">>, VInt(0)),
                Field(<<"n", "u", "m">>, VInt(12)),
                Field(<<"Z">>, VStr(<<"a", ",", "b", DQ, "c", LF, "d", CR, "e">>)),
                Field(<<"l", "o", "n", "g">>, VStr(Xs(ValueLimit + 1))),
                Field(<<"l", "a">>, VList(<<>>)),
                Field(<<"l", "b">>, VList(<< VStr(<<"a", ",", DQ, LF, CR>>) >>)),
                Field(<<"l", "c">>, VList(<< VStr(Xs(ItemLimit + 1)) >>)),
                Field(<<"l", "d">>, VList(<< VInt(1), VBool(TRUE), VNone >>)),
                Field(<<"d", "a">>, VDict(<<>>)),
                Field(<<"d", "b">>, VDict(<< <<"a">>, <<"b">>, <<"c">>, <<"d">> >>)),
                Field(<<"d", "c">>, VDict(<< <<"a", ",", "b">>, Xs(KeyLimit + 1) >>)),
                Field(KScore, VInt(7)) >>)

\* the data a record may carry
Candidates ==
    << DictData(<<>>),
       ScalarData(VStr(<<"x">>)),
       DictData(<< Field(KTags, VList(<< VStr(<<"a">>), VStr(<<"b">>) >>)),
                   Field(KScore, VStr(<<>>)) >>),
       RichData >>

\* the databases of at most MaxRecords records; record i is network 10.0.<i>.0/24
Databases ==
    UNION {{[i \in 1..n |-> [network |-> i, data |-> Candidates[f[i]]]] :
                f \in [1..n -> 1..Len(Candidates)]} : n \in 0..MaxRecords}

\* the values of max_rows: None and the integers up to the length of the
\* longest database
Caps == {NoCap} \cup {<<k>> : k \in 0..MaxRecords}

\* --------------------------------------------------- one transcoding
\* convert_mmdb_to_csv is called on a database with a max_rows
InitCsv ==
    /\ MainInit
    /\ db \in Databases
    /\ max_rows \in Caps
    /\ csv_out = [header |-> <<>>, rows |-> <<>>, raised |-> <<>>]
    /\ conv = "ready"

\* lines 338-444: the call returns with the file written, or raises
ConvertCsv ==
    /\ conv = "ready"
    /\ \E order \in SetOrders : csv_out' = ConvertMmdbToCsvResult(db, max_rows, order)
    /\ conv' = "done"
    /\ UNCHANGED << db, max_rows >>
    /\ UNCHANGED mainVars

\* the same call on the same database once more (the file is overwritten)
ConvertCsvAgain ==
    /\ conv = "done"
    /\ \E order \in SetOrders : csv_out' = ConvertMmdbToCsvResult(db, max_rows, order)
    /\ conv' = "repeated"
    /\ UNCHANGED << db, max_rows >>
    /\ UNCHANGED mainVars

NextCsv == ConvertCsv \/ ConvertCsvAgain

SpecCsv == InitCsv /\ [][NextCsv]_vars

\* ====================================================================
\* Properties
\* ====================================================================
Idx == 1..Len(log)

\* the five synchronization steps of an artifact
SyncOps == {"upload_lookup_file", "check_lookup_exists", "create_lookup", "update_lookup",
            "commit_changes", "deploy_changes"}

BindOps == {"create_lookup", "update_lookup"}

\* the calls that belong to an artifact's pipeline
PipelineOps == SyncOps \cup {"download_mmdb_file", "process_mmdb_file", "convert_mmdb_to_csv"}

Terminal == pc \in {"done", "failed"}

\* the step got a 2xx response and produced what it is there for
StepSucceeded(e) ==
    /\ e.status = "ok"
    /\ e.op \in {"upload_lookup_file", "commit_changes"} => Truthy(e.ret)
    /\ e.op \in BindOps \cup {"deploy_changes"} => e.ret = PyTrue

\* a successful deploy of artifact a precedes position i of the log
DeployedBefore(a, i) ==
    \E j \in Idx : j < i /\ log[j].op = "deploy_changes" /\ log[j].art = a /\ StepSucceeded(log[j])

\* the step that must directly precede a step of the pipeline
Predecessor(op) ==
    CASE op = "check_lookup_exists" -> {"upload_lookup_file"}
      [] op \in BindOps -> {"check_lookup_exists"}
      [] op = "commit_changes" -> BindOps
      [] op = "deploy_changes" -> {"commit_changes"}
      [] OTHER -> {}

\* C1: in every run and for each artifact the remote operations are issued in
\* the order upload, existence check, one of create or update, commit, deploy;
\* no step is issued before its predecessor has succeeded, and deploy carries
\* the commit identifier returned by the same artifact's commit.
C1_StepOrder ==
    /\ \A i \in Idx :
         log[i].op \in SyncOps \ {"upload_lookup_file"} =>
           /\ i > 1
           /\ log[i-1].op \in Predecessor(log[i].op)
           /\ log[i-1].art = log[i].art
           /\ StepSucceeded(log[i-1])
           /\ log[i].op = "deploy_changes" => log[i].arg = log[i-1].ret
    /\ \A i, j \in Idx :
         (log[i].op = "upload_lookup_file" /\ log[j].op = "upload_lookup_file"
            /\ log[i].art = log[j].art) => i = j

\* the order of C1 with the existence check only required to have returned
\* (used to locate the failure of C1_StepOrder; no claim's formula)
StepOrderAfterReturn ==
    \A i \in Idx :
      log[i].op \in SyncOps \ {"upload_lookup_file"} =>
        /\ i > 1
        /\ log[i-1].op \in Predecessor(log[i].op)
        /\ log[i-1].art = log[i].art
        /\ IF log[i-1].op = "check_lookup_exists"
           THEN log[i-1].status \in {"ok", "err"}
           ELSE StepSucceeded(log[i-1])
        /\ log[i].op = "deploy_changes" => log[i].arg = log[i-1].ret

\* C2: when one of the five synchronization steps of an artifact fails by a
\* transport error or a non-2xx response, no later step is issued in that run
\* and main() ends by raising; this for every step, the existence check included.
C2_FailureAborts ==
    \A i \in Idx :
      (log[i].op \in SyncOps /\ log[i].status = "err") => (i = Len(log) /\ pc = "failed")

\* C2 for the steps other than the existence check (no claim's formula)
FailureAbortsButExists ==
    \A i \in Idx :
      (log[i].op \in SyncOps \ {"check_lookup_exists"} /\ log[i].status = "err")
        => (i = Len(log) /\ pc = "failed")

\* C3: a create (POST) is never issued for a logical filename that a run has
\* already registered in the remote store: a later run takes the update path.
C3_NoDuplicateCreate ==
    [][ (Len(log') = Len(log) + 1 /\ log'[Len(log')].op = "create_lookup")
          => log'[Len(log')].id \notin registered ]_vars

\* C4: an upload response that carries no temporary filename, or one that is
\* not prefixed by the artifact's filename without its extension, makes
\* upload_lookup_file report failure; no further step is issued for the
\* artifact and the run ends in error.
C4_UploadValidation ==
    \A i \in Idx :
      (log[i].op = "upload_lookup_file" /\ log[i].status = "ok"
         /\ ~(Truthy(DictGet(log[i].body)) /\ StartsWith(log[i].body, SplitExtRoot(log[i].id))))
        => (log[i].ret = None /\ i = Len(log) /\ pc = "failed")

\* C4 witness: the staging endpoint acknowledged the tabular sample with a
\* temporary filename of another base name, and the run has failed
C4_Witness ==
    /\ pc = "failed"
    /\ log # <<>>
    /\ LET e == log[Len(log)]
       IN  /\ e.op = "upload_lookup_file" /\ e.art = "csv" /\ e.status = "ok"
           /\ e.body \in TempNames
           /\ ~StartsWith(e.body, SplitExtRoot(e.id))

\* C5: a commit response without a commit identifier (the key missing, the
\* value empty, or no item to read it from) is a hard failure: no deploy is
\* issued for the artifact and main() ends by raising.
C5_CommitIdRequired ==
    \A i \in Idx :
      (log[i].op = "commit_changes" /\ log[i].status \in {"ok", "raise"}
         /\ log[i].body \notin CommitIds)
        => (log[i].ret = None /\ i = Len(log) /\ pc = "failed")

\* C5 witness: the commit of the tabular sample answered with an item list
\* that is empty or lacks the key, and the run has failed
C5_Witness ==
    /\ pc = "failed"
    /\ log # <<>>
    /\ LET e == log[Len(log)]
       IN  e.op = "commit_changes" /\ e.art = "csv" /\ e.status = "raise"

\* C6: the tabular artifact's transcoding and remote operations all come after
\* the successful deploy of the binary artifact, and no operation of the
\* binary pipeline follows one of the tabular pipeline.
C6_Sequential ==
    /\ \A i \in Idx :
         (log[i].op \in PipelineOps /\ log[i].art = "csv") => DeployedBefore("mmdb", i)
    /\ \A i, j \in Idx :
         (i < j /\ log[i].op \in PipelineOps /\ log[i].art = "csv" /\ log[j].op \in PipelineOps)
           => log[j].art = "csv"

\* C6 witness: both pipelines have run to their deploy
C6_Witness ==
    /\ DeployedBefore("mmdb", Len(log) + 1)
    /\ DeployedBefore("csv", Len(log) + 1)

TokenCalls == {i \in Idx : log[i].op = "get_bearer_token"}

\* the parts of C7 that do not count the requests: the token call is the first
\* call of the run, a run without a token makes no further call, and every
\* remote call carries the token that call returned
TokenFirstAndUnchanged ==
    /\ log # <<>> => log[1].op = "get_bearer_token"
    /\ (log # <<>> /\ ~Truthy(log[1].ret)) => (Len(log) = 1 /\ pc = "failed")
    /\ \A i \in Idx : log[i].op \in SyncOps => (Truthy(log[1].ret) /\ log[i].tok = log[1].ret)
    /\ Len(log) > 1 => token = log[1].ret

C8_CleanupOnlyOnSuccess ==
    /\ \A i \in Idx :
         log[i].op = "cleanup_old_files" =>
           /\ log[1].op = "get_bearer_token" /\ Truthy(log[1].ret)
           /\ \E j \in Idx : j < i /\ log[j].op = "process_mmdb_file" /\ log[j].status = "ok"
           /\ DeployedBefore("mmdb", i)
           /\ create_csv =>
                /\ \E j \in Idx : j < i /\ log[j].op = "convert_mmdb_to_csv" /\ log[j].status = "ok"
                /\ DeployedBefore("csv", i)
    /\ \A i \in Idx :
         log[i].op = "os.remove" => \E j \in Idx : j < i /\ log[j].op = "cleanup_old_files"
    /\ (pc = "failed" /\ ~\E j \in Idx : log[j].op = "cleanup_old_files") =>
         \A i \in Idx :
           /\ (log[i].op = "download_mmdb_file" /\ log[i].status # "err") =>
                (IF mmdb_path = TargetFilename THEN TargetFilename ELSE log[i].id) \in fs
           /\ (log[i].op = "convert_mmdb_to_csv" /\ log[i].status = "ok") => log[i].ret \in fs

\* C8 witness: a run with the tabular sample enabled has reached the cleanup
C8_Witness ==
    /\ create_csv
    /\ \E i \in Idx : log[i].op = "cleanup_old_files"

\* C9: when main() returns without error, none of the files the run wrote is
\* left: not the download, not the canonical binary, not the tabular sample.
C9_NoWorkingFileLeft ==
    pc = "done" =>
      /\ TargetFilename \notin fs
      /\ \A i \in Idx :
           /\ log[i].op = "download_mmdb_file" => log[i].id \notin fs
           /\ (log[i].op = "convert_mmdb_to_csv" /\ log[i].status = "ok") => log[i].ret \notin fs

\* C9 witness: a run that produced the tabular sample has returned, in a
\* directory where an earlier run had left a file
C9_Witness ==
    /\ pc = "done"
    /\ Truthy(csv_filename)
    /\ fs # {}

\* C10 (state part): a failed removal makes cleanup_old_files return False and
\* main() raise, with every artifact of the run already deployed, and nothing
\* but removals follows the call.
C10_CleanupFailureFatal ==
    /\ \A j \in Idx :
         (log[j].op = "os.remove" /\ log[j].status = "raise") =>
           \E i \in Idx : i < j /\ log[i].op = "cleanup_old_files" /\ log[i].ret = PyFalse
    /\ \A i \in Idx :
         (log[i].op = "cleanup_old_files" /\ log[i].ret = PyFalse) =>
           /\ pc = "failed"
           /\ error = MainError(<<"Failed to cleanup old files">>)
           /\ DeployedBefore("mmdb", i)
           /\ create_csv => DeployedBefore("csv", i)
           /\ \A k \in Idx : k > i => log[k].op = "os.remove"

\* C10: a cleanup failure is fatal although every artifact was committed and
\* deployed, and the cleanup leaves the remote store as the earlier steps made it.
C10_CleanupFatalRemoteKept ==
    /\ []C10_CleanupFailureFatal
    /\ [][pc = "cleanup" => (registered' = registered /\ deployed' = deployed)]_vars

\* C10 witness: the binary file was removed, the removal of the tabular
\* sample failed, and the run has failed with both artifacts deployed
C10_Witness ==
    /\ pc = "failed"
    /\ log # <<>>
    /\ log[Len(log)].op = "os.remove"
    /\ log[Len(log)].art = "csv"
    /\ log[Len(log)].status = "raise"
    /\ lookup_filename \notin fs
    /\ deployed \in CommitIds

\* ====================================================================
\* Properties of convert_mmdb_to_csv (specification SpecCsv)
\* ====================================================================
\* the call has returned
Converted == conv \in {"done", "repeated"}

\* the records with non-empty data, by their place in the database
NonEmpty == {i \in 1..Len(db) : DataTruthy(db[i].data)}

Min2(a, b) == IF a <= b THEN a ELSE b

\* the record a written row belongs to: its first cell is the network
RecordOfRow(row) == db[CHOOSE i \in 1..Len(db) : NetworkStr(db[i].network) = row[1]]

\* the data columns of the header
DataColumns == 4..Len(csv_out.header)

\* C11: with the cap max_rows = k, for every k >= 0 and k = 0 included, the
\* file is a header and exactly min(k, number of records with non-empty
\* data) rows; without a cap it has one row for each such record.
C11_RowCap ==
    Converted =>
        /\ SubSeq(csv_out.header, 1, 3) = BaseHeaders
        /\ Len(csv_out.rows) = IF max_rows = NoCap THEN Cardinality(NonEmpty)
                               ELSE Min2(max_rows[1], Cardinality(NonEmpty))

\* C12: a record whose non-empty data is not a dict gets a row, whose three
\* base columns are filled and whose other columns all read NULL.
C12_ScalarRowNull ==
    Converted =>
        /\ \A j \in 1..Len(csv_out.rows) :
               ~IsDict(RecordOfRow(csv_out.rows[j]).data) =>
                   /\ \A c \in 1..3 : csv_out.rows[j][c] # EmptyStr
                   /\ \A c \in DataColumns : csv_out.rows[j][c] = <<"NULL">>
        /\ max_rows = NoCap =>
               \A i \in NonEmpty : \E j \in 1..Len(csv_out.rows) :
                   csv_out.rows[j][1] = NetworkStr(db[i].network)

\* the encoding rules as the specification lists them, in its order; absent
\* tells that the record has no such key, KeyForm is the form in which a
\* key of a nested dict is shown
RuleCell(value, absent, KeyForm(_)) ==
    CASE ~absent /\ value.t = "list" /\ Len(value.items) = 0 -> <<"EMPTY_LIST">>
      [] ~absent /\ value.t = "list" /\ Len(value.items) = 1 ->
             <<"LIST_1_ITEM_">> \o Take(CleanItem(StrOf(value.items[1])), ItemLimit)
      [] ~absent /\ value.t = "list" /\ Len(value.items) >= 2 ->
             <<"LIST_">> \o NumStr(Len(value.items)) \o <<"_ITEMS">>
      [] ~absent /\ value.t = "dict" /\ Len(value.keys) = 0 -> <<"EMPTY_DICT">>
      [] ~absent /\ value.t = "dict" /\ Len(value.keys) >= 1 ->
             <<"DICT_">> \o NumStr(Len(value.keys)) \o <<"_KEYS_">>
             \o JoinUnderscore([i \in 1..Min2(KeysShown, Len(value.keys)) |-> KeyForm(value.keys[i])])
      [] absent \/ value.t = "none" \/ (value.t = "str" /\ value.s = <<>>) -> <<"NULL">>
      [] ~absent /\ value.t = "bool" -> IF value.b THEN <<"true">> ELSE <<"false">>
      [] OTHER -> Take(CleanValue(StrOf(value)), ValueLimit)

\* every cell of every row of a dict record follows the rules, a key of a
\* nested dict being shown as KeyForm tells
CellsFollowRules(KeyForm(_)) ==
    \A j \in 1..Len(csv_out.rows) :
        LET rec == RecordOfRow(csv_out.rows[j])
        IN  IsDict(rec.data) =>
                \A c \in DataColumns :
                    LET key == csv_out.header[c]
                        absent == \A i \in 1..Len(rec.data.fields) : rec.data.fields[i].k # key
                    IN  csv_out.rows[j][c] = RuleCell(DataGet(rec.data, key), absent, KeyForm)

\* a key name of at most 10 characters, its commas stripped
KeyCommasStripped(k) == Take(Remove(k, ","), KeyLimit)

\* a key name cut to 10 characters, its commas replaced by semicolons
KeyCommasReplaced(k) == Take(Replace(k, ",", ";"), KeyLimit)

\* C13 as stated: every cell of a dict record is what the encoding rules of
\* the specification give, with the first three key names of a nested dict
\* shown with their commas stripped.
C13_SpecRules == Converted => CellsFollowRules(KeyCommasStripped)

\* C13: every cell of a dict record is what the encoding rules give in
\* their order (empty list, one-item list, longer list, empty dict, dict,
\* null or absent or empty string, boolean, other), where a nested dict
\* shows its first three keys with commas replaced by semicolons, each cut
\* to 10 characters.
C13_CellEncoding == Converted => CellsFollowRules(KeyCommasReplaced)

\* a row of the record that has a value of every kind, all its columns in
\* the header
C13_Witness ==
    /\ Converted
    /\ \E j \in 1..Len(csv_out.rows) :
           /\ RecordOfRow(csv_out.rows[j]).data = RichData
           /\ \A i \in 1..Len(RichData.fields) :
                  \E c \in DataColumns : csv_out.header[c] = RichData.fields[i].k
           /\ \E c \in DataColumns : /\ csv_out.header[c] = KTags
                                     /\ csv_out.rows[j][c] = <<"NULL">>

\* the records sampled for the schema: the first SampleSize records with
\* non-empty data
Sampled == {i \in NonEmpty : Cardinality({j \in NonEmpty : j <= i}) <= SampleSize}

\* the keys of the sampled records (a record that is not a dict has none)
SampledKeys ==
    UNION {{db[i].data.fields[f].k : f \in 1..Len(db[i].data.fields)} : i \in Sampled}

\* s lists the elements of S once each, in ascending order
IsSortedListOf(s, S) ==
    /\ Len(s) = Cardinality(S)
    /\ {s[i] : i \in 1..Len(s)} = S
    /\ \A i, j \in 1..Len(s) : i < j => LexLess(s[i], s[j])

\* the header is the base columns, then the sampled keys in ascending order
HeaderOfSample ==
    /\ SubSeq(csv_out.header, 1, 3) = BaseHeaders
    /\ IsSortedListOf(SubSeq(csv_out.header, 4, Len(csv_out.header)), SampledKeys)

\* C14: the header is the three fixed columns followed by the sorted union
\* of the keys of the first N records with non-empty data in reader order
\* (records without data are passed over and do not count, a shorter
\* database is used whole), and a repetition on the same database gives the
\* same header.
C14_HeaderOfSample ==
    /\ [](Converted => HeaderOfSample)
    /\ [][Converted /\ Converted' => csv_out'.header = csv_out.header]_vars

\* a repeated transcoding of a database that goes on beyond the sample with
\* a key the sample has not shown
C14_Witness ==
    /\ conv = "repeated"
    /\ Len(csv_out.header) > 4
    /\ \E i \in NonEmpty \ Sampled :
           \E f \in 1..Len(db[i].data.fields) : db[i].data.fields[f].k \notin SampledKeys

\* the j-th record with non-empty data, in reader order
NthNonEmpty(j) == CHOOSE i \in NonEmpty : Cardinality({x \in NonEmpty : x <= i}) = j

\* C15: without a row cap the rows are, in reader order and from the first
\* record of the database on (the records read for the schema included),
\* one row for each record with non-empty data; a record with empty data
\* has no row.
C15_AllRowsInOrder ==
    (Converted /\ max_rows = NoCap) =>
        /\ Len(csv_out.rows) = Cardinality(NonEmpty)
        /\ \A j \in 1..Len(csv_out.rows) :
               csv_out.rows[j][1] = NetworkStr(db[NthNonEmpty(j)].network)

\* an export without cap of a database that has a record without data
\* between records with data, all of them read for the schema before
C15_Witness ==
    /\ Converted
    /\ max_rows = NoCap
    /\ \E i \in 1..Len(db) : i \notin NonEmpty /\ 1 < i /\ i < Len(db)
    /\ Sampled = NonEmpty
    /\ Len(csv_out.rows) = 2

\* ====================================================================
\* Properties of the run (specification Spec), continued
\* ====================================================================
\* C16: validate_mmdb_file never raises, a missing file and a file that does
\* not open are answered with False; and a run whose downloaded file failed
\* validation ends in error with nothing done after the download: no
\* rename, upload, registration, commit or deploy.
C16_ValidationGuards ==
    /\ \A exists \in BOOLEAN, opens \in BOOLEAN :
           /\ ValidateMmdbFileResult(exists, opens).kind = "ret"
           /\ (~exists \/ ~opens) => ValidateMmdbFileResult(exists, opens).val = PyFalse
    /\ \A i \in Idx :
           log[i].op = "validate_mmdb_file" =>
               /\ log[i].status = "ok"
               /\ log[i].body # <<"opens">> => log[i].ret = PyFalse
               /\ log[i].ret = PyFalse =>
                      /\ pc = "failed"
                      /\ Len(log) = i + 1
                      /\ log[i + 1].op = "download_mmdb_file" /\ log[i + 1].status = "raise"
                      /\ lookup_filename = None
                      /\ temp_filename = None

\* a run whose download did not open as a database
C16_Witness ==
    /\ pc = "failed"
    /\ \E i \in Idx : /\ log[i].op = "validate_mmdb_file"
                      /\ log[i].body = <<"unopenable">>
                      /\ log[i].ret = PyFalse

\* the message err ends with the message cause and has more in front of it
Wraps(err, cause) ==
    /\ Len(err) > Len(cause)
    /\ SubSeq(err, Len(err) - Len(cause) + 1, Len(err)) = cause

\* C17: every failure of the acquisition (download error, invalid download,
\* missing file, rename or counting error) reaches main as an error that
\* wraps the original failure; the error of a failed download carries the
\* download failure.
C17_AcquisitionErrorWrapped ==
    \A i \in Idx :
        (log[i].op \in {"download_mmdb_file", "process_mmdb_file"} /\ log[i].status # "ok") =>
            /\ pc = "failed"
            /\ Wraps(error, log[i].body)
            /\ log[i].op = "download_mmdb_file" => Wraps(error, DownloadExcept(log[i].body))

\* the logical filename of an artifact
LogicalFilename(a) == IF a = "mmdb" THEN TargetFilename ELSE CsvFilenameOf(TargetFilename)

OtherArtifact(a) == IF a = "mmdb" THEN "csv" ELSE "mmdb"

\* the uploads of artifact a in the run
UploadsOf(a) == {j \in Idx : log[j].op = "upload_lookup_file" /\ log[j].art = a}

\* C18: a create or update request carries as id the logical filename of
\* its own artifact and as file reference the temporary filename that the
\* upload of that artifact returned in this run; it carries neither the id
\* nor the temporary filename of the other artifact.
C18_BindCarriesOwnArtifact ==
    \A i \in Idx :
        log[i].op \in BindOps =>
            /\ log[i].id = LogicalFilename(log[i].art)
            /\ log[i].id # LogicalFilename(OtherArtifact(log[i].art))
            /\ \E j \in UploadsOf(log[i].art) : j < i /\ log[i].arg = log[j].ret
            /\ \A j \in UploadsOf(OtherArtifact(log[i].art)) :
                   (\A k \in UploadsOf(log[i].art) : log[k].ret # log[j].ret) =>
                       log[i].arg # log[j].ret

\* both artifacts registered in one run, their uploads having returned
\* different temporary filenames
C18_Witness ==
    /\ \E i \in Idx : log[i].op \in BindOps /\ log[i].art = "mmdb"
    /\ \E i \in Idx : log[i].op \in BindOps /\ log[i].art = "csv"
    /\ temp_filename # csv_temp_filename

\* the answer kept in event e lists the id that was asked for
Listed(e) == \E k \in 1..Len(e.body) : e.body[k] = e.id

\* C19: the answer of the existence check alone chooses the bind step.  When
\* the query succeeds and an item has the logical filename as id, the check
\* answers found and update is issued, not create; when it succeeds with an
\* empty or absent item list or with no item of that id, it answers not
\* found without raising and create is issued, not update.
C19_BindByAnswer ==
    \A i \in Idx :
        (log[i].op = "check_lookup_exists" /\ log[i].status = "ok") =>
            /\ log[i].ret = IF Listed(log[i]) THEN PyTrue ELSE PyFalse
            /\ IF i = Len(log)
               THEN pc = IF Listed(log[i]) THEN "update" ELSE "create"
               ELSE /\ log[i + 1].op = IF Listed(log[i]) THEN "update_lookup" ELSE "create_lookup"
                    /\ log[i + 1].art = log[i].art
                    /\ log[i + 1].id = log[i].id

\* an update issued after an answer that lists the id behind another one,
\* and a create issued after an answer without item list
C19_Witness ==
    /\ \E i \in Idx : /\ log[i].op = "check_lookup_exists" /\ log[i].status = "ok"
                      /\ log[i].body = <<OtherId, log[i].id>>
                      /\ i < Len(log) /\ log[i + 1].op = "update_lookup"
    /\ \E i \in Idx : /\ log[i].op = "check_lookup_exists" /\ log[i].status = "ok"
                      /\ log[i].body = <<Absent>>
                      /\ i < Len(log) /\ log[i + 1].op = "create_lookup"

\* main is straight-line code: a run that can take a step takes it (every
\* call returns or raises), and the script is started again while runs are
\* left
SpecLive == Spec /\ WF_vars(Next)

\* the operations on the remote services
RemoteOps == {"get_bearer_token", "upload_lookup_file", "check_lookup_exists",
              "create_lookup", "update_lookup", "commit_changes", "deploy_changes"}

\* events i and j are the same remote operation on the same artifact
\* (create and update are the one bind operation; the token belongs to no
\* artifact)
SameOperation(i, j) ==
    /\ log[i].op \in RemoteOps
    /\ \/ log[i].op = log[j].op
       \/ log[i].op \in BindOps /\ log[j].op \in BindOps
    /\ log[i].op = "get_bearer_token" \/ log[i].art = log[j].art

NoOperationTwice == \A i, j \in Idx : i < j => ~SameOperation(i, j)

\* C20: every run ends, in success or in failure, and within a run each
\* remote operation (token request, upload, existence check, create or
\* update, commit, deploy) is issued at most once per artifact: nothing
\* that failed is tried again.
C20_TerminatesNoRetry ==
    /\ (~Terminal) ~> Terminal
    /\ []NoOperationTwice

\* a run that failed at an upload that the service refused, the upload
\* issued that one time
C20_Witness ==
    /\ pc = "failed"
    /\ log # <<>>
    /\ log[Len(log)].op = "upload_lookup_file"
    /\ log[Len(log)].status = "err"
    /\ Cardinality({i \in Idx : log[i].op = "upload_lookup_file"}) = 1

\* ====================================================================
\* Properties of convert_mmdb_to_csv (specification SpecCsv), continued
\* ====================================================================
\* the keys of record i that are no column of the header
UnseenKeys(i) ==
    {db[i].data.fields[f].k : f \in 1..Len(db[i].data.fields)}
        \ {csv_out.header[c] : c \in DataColumns}

\* the rows written for record i
RowsOf(i) == {j \in 1..Len(csv_out.rows) : csv_out.rows[j][1] = NetworkStr(db[i].network)}

\* C21: a record with a key that the inferred schema lacks (a key first seen
\* after the sampled records) never makes the transcoding fail: its row is
\* written, has exactly the columns of the header, filled from the fields
\* of the record that the header names, and the unseen field is left out.
C21_UnseenKeyDropped ==
    Converted =>
        /\ csv_out.raised = <<>>
        /\ \A i \in NonEmpty :
               UnseenKeys(i) # {} =>
                   /\ max_rows = NoCap => RowsOf(i) # {}
                   /\ \A j \in RowsOf(i) :
                          /\ Len(csv_out.rows[j]) = Len(csv_out.header)
                          /\ \A c \in DataColumns :
                                 csv_out.rows[j][c] =
                                     EncodeValue(DataGet(db[i].data, csv_out.header[c]))

\* an export without cap that wrote the row of a record beyond the sample
\* which has a key the header lacks and a key the header has
C21_Witness ==
    /\ Converted
    /\ max_rows = NoCap
    /\ \E i \in NonEmpty \ Sampled :
           /\ UnseenKeys(i) # {}
           /\ RowsOf(i) # {}
           /\ \E c \in DataColumns : csv_out.header[c] = KScore
           /\ \E f \in 1..Len(db[i].data.fields) : db[i].data.fields[f].k = KScore

\* ====================================================================
\* Properties of the run (specification Spec), the toggle
\* ====================================================================
\* the events of operation op in the run
EventsOf(op) == {i \in Idx : log[i].op = op}

\* nothing in the run concerns the tabular sample
NoTabularWork ==
    /\ \A i \in Idx : /\ log[i].op # "convert_mmdb_to_csv"
                      /\ log[i].art # "csv"
                      /\ log[i].id # CsvFilenameOf(TargetFilename)
    /\ csv_filename = None
    /\ csv_temp_filename = None

\* a run that ended well has synchronized the binary lookup, once
OneArtifactSynchronized ==
    pc = "done" =>
        /\ \A op \in {"upload_lookup_file", "commit_changes", "deploy_changes"} :
               Cardinality(EventsOf(op)) = 1
        /\ Cardinality(EventsOf("create_lookup") \cup EventsOf("update_lookup")) = 1
        /\ \A i \in Idx : log[i].op \in SyncOps =>
               /\ log[i].art = "mmdb"
               /\ log[i].op # "deploy_changes" => log[i].id = TargetFilename
        /\ \A i \in EventsOf("deploy_changes") : log[i].status = "ok"

\* the files removed in the run are the binary file, and a step removes no
\* other file
OnlyBinaryRemoved == \A i \in EventsOf("os.remove") : log[i].id = TargetFilename

\* C22: with the toggle for the tabular sample off, a run does no
\* transcoding and no remote operation for a tabular artifact; the one
\* artifact that is uploaded, bound, committed and deployed is the binary
\* lookup, and the cleanup deletes the binary file only.
C22_ToggleOffBinaryOnly ==
    /\ [](~create_csv => (NoTabularWork /\ OneArtifactSynchronized /\ OnlyBinaryRemoved))
    /\ [][(~create_csv /\ pc = "cleanup") => (fs \ fs') \subseteq {TargetFilename}]_vars

\* a run with the toggle off that ended well and removed the binary file,
\* a tabular sample of an earlier run still lying in the directory
C22_Witness ==
    /\ ~create_csv
    /\ pc = "done"
    /\ \E i \in EventsOf("os.remove") : log[i].status = "ok"
    /\ TargetFilename \notin fs
    /\ CsvFilenameOf(TargetFilename) \in fs
====
